---- MODULE Spec2Model ----
(***************************************************************************)
(* Quick Cards: the study-session state machine (StudyView), the deck it   *)
(* works on (storage), the App-level save, the shuffle utility, and the    *)
(* editor (EditView) with its debounced save, import and export under App. *)
(*                                                                         *)
(* Positions are 0-based as in the source; At(s, i) reads s[i].            *)
(* A text is a sequence of the characters " " and "x"; a card is a record  *)
(* with fields q, a and an optional field archived (absent = undefined).   *)
(*                                                                         *)
(* A handler runs to completion with its state updates batched; when it    *)
(* has replaced the deck, the render that follows is a state of its own    *)
(* (pc = "effect") and the [deck] effect runs before the next handler.     *)
(* Math.random is an unbiased source: each draw j of shuffleInPlace is any *)
(* index of startIndex..i, and an outcome is the sequence of the draws.    *)
(***************************************************************************)
EXTENDS Integers, Sequences, FiniteSets, TLC

VARIABLES
    deck,        \* App: const [deck, setDeck]
    stored,      \* localStorage["quick-cards/deck"]: <<>>, <<deck>>, or
                 \* <<document>> when what it holds is not a deck
    order,       \* StudyView: const [order, setOrder]
    cursor,      \* StudyView: const [cursor, setCursor]
    flipped,     \* StudyView: const [flipped, setFlipped]
    direction,   \* StudyView: const [direction, setDirection]
    pc,          \* "effect": a render with a changed deck is committed and the
                 \*           [deck] effect has not run yet; "idle": settled;
                 \* "unmounted": no StudyView is followed
    lastOp,      \* the handler that ran last
    pre,         \* the session as the last handler found it
    deck0,       \* the deck the StudyView was mounted with
    scen,        \* how many handlers of Script have run, in order and alone,
                 \* since the mount; -1 once any other handler has run
    lastKey,     \* the key of the last event when that was a keydown of
                 \* space or g with repeat = true, or a press of enter
                 \* outside a field; "" otherwise
    sArr,        \* shuffleInPlace call: the array passed in
    sStart,      \* shuffleInPlace call: startIndex
    sOut,        \* shuffleInPlace call: the array after the call
    sPc,         \* shuffleInPlace call: "call" | "returned"
    mode,        \* App: const [mode, setMode]
    key,         \* App: hashDeck(deck) of the last render, the key of EditView
    exportedHash,\* App: const [exportedHash, setExportedHash]: <<>> is null
    storedHash,  \* localStorage["quick-cards/exported-hash"]: <<>> or <<digest>>
    file,        \* the document the last export wrote: <<>> or <<document>>
    work,        \* EditView: its name, cards, direction and shuffle states
    timers,      \* window timers armed by useDebounced and not yet fired or
                 \* cleared, oldest first; ref: timerRef.current holds its id;
                 \* disposed: the view that armed it is unmounted
    notice,      \* EditView: the message last put in its live region
    crashed,     \* a render has thrown and React has unmounted the tree
    hosted,      \* EditView is given the optional prop onExportHeader (App
                 \* gives it; without it exportJSON serializes on its own)
    theme,       \* App: const [theme, setTheme]
    themeItem,   \* localStorage["quick-cards/theme"]: <<>> or <<string>>
    dataTheme,   \* the data-theme attribute of the document element: <<>> or
                 \* <<string>>
    steps,       \* how many handlers of App and EditView the user has invoked
    eOp,         \* the App or EditView handler that ran last
    eArg         \* what that handler was given

sessionVars == <<deck, stored, order, cursor, flipped, direction, pc, lastOp, pre,
                 deck0, scen, lastKey>>
studyVars == <<order, cursor, flipped, direction, pc, lastOp, pre, deck0, scen,
               lastKey>>
shuffleVars == <<sArr, sStart, sOut, sPc>>
themeVars == <<theme, themeItem, dataTheme>>
editVars == <<mode, key, exportedHash, storedHash, file, work, timers, notice,
              crashed, hosted, theme, themeItem, dataTheme, steps, eOp, eArg>>
vars == <<deck, stored, order, cursor, flipped, direction, pc, lastOp, pre,
          deck0, scen, lastKey, sArr, sStart, sOut, sPc, mode, key, exportedHash,
          storedHash, file, work, timers, notice, crashed, hosted, theme,
          themeItem, dataTheme, steps, eOp, eArg>>

----------------------------------------------------------------------------
(* Bounds *)

MaxCards == 3     \* cards in a deck
MaxLen == 3       \* length of an array handed to shuffleInPlace
MaxSteps == 2     \* handlers of App and EditView the user has invoked

----------------------------------------------------------------------------
(* Helpers *)

At(s, i) == s[i + 1]

Max(a, b) == IF a >= b THEN a ELSE b

RECURSIVE Factorial(_)
Factorial(n) == IF n <= 1 THEN 1 ELSE n * Factorial(n - 1)

SeqsUpTo(S, n) == UNION {[1..k -> S] : k \in 0..n}

Range(s) == {s[k] : k \in 1..Len(s)}

\* the number of positions of s holding x
Occurrences(s, x) == Cardinality({k \in 1..Len(s) : s[k] = x})

IsPermutationOf(s, t) ==
    /\ Len(s) = Len(t)
    /\ \A x \in Range(s) \cup Range(t) : Occurrences(s, x) = Occurrences(t, x)

----------------------------------------------------------------------------
(* utils/shuffle *)

\* [arr[i], arr[j]] = [arr[j], arr[i]]
SwapLoseElement(arr, i, j) == [arr EXCEPT ![i + 1] = At(arr, j)]
Swap(arr, i, j) == [arr EXCEPT ![i + 1] = At(arr, j), ![j + 1] = At(arr, i)]

\* the values of Math.floor(Math.random() * (i - startIndex + 1)) + startIndex
DrawRangeNaive(arr, i, startIndex) == startIndex..(Len(arr) - 1)
DrawRange(arr, i, startIndex) == startIndex..i

\* one outcome of the random source for a whole call: the j drawn at each i
DrawSeqs(arr, startIndex) ==
    {d \in [(startIndex + 1)..(Len(arr) - 1) -> 0..(Len(arr) - 1)] :
        \A i \in DOMAIN d : d[i] \in DrawRange(arr, i, startIndex)}

\* for (let i = arr.length - 1; i > startIndex; i--) { swap(i, j) }
RECURSIVE shuffleLoop(_, _, _, _)
shuffleLoop(arr, i, startIndex, draws) ==
    IF i > startIndex
    THEN shuffleLoop(Swap(arr, i, draws[i]), i - 1, startIndex, draws)
    ELSE arr

shuffleInPlace(arr, startIndex, draws) ==
    shuffleLoop(arr, Len(arr) - 1, startIndex, draws)

----------------------------------------------------------------------------
(* utils/storage: texts, cards, decks *)

\* String.prototype.trim: drop leading and trailing white space
RECURSIVE TrimStart(_)
TrimStart(t) == IF Len(t) > 0 /\ t[1] = " " THEN TrimStart(Tail(t)) ELSE t

RECURSIVE TrimEnd(_)
TrimEnd(t) ==
    IF Len(t) > 0 /\ t[Len(t)] = " " THEN TrimEnd(SubSeq(t, 1, Len(t) - 1)) ELSE t

Trim(t) == TrimEnd(TrimStart(t))

\* the cards a deck of the model is built from
CardPool ==
    { [q |-> <<>>, a |-> <<" ", "x", " ">>],                   \* plain card
      [q |-> <<" ">>, a |-> <<>>, archived |-> FALSE],         \* blank card
      [q |-> <<"x">>, a |-> <<"x">>, archived |-> TRUE] }      \* archived card

Directions == {"Q2A", "A2Q"}

Decks ==
    {[schemaVersion |-> 1, name |-> "Sample Set", cards |-> cs,
      defaults |-> [direction |-> d, shuffle |-> sh]] :
        cs \in SeqsUpTo(CardPool, MaxCards), d \in Directions, sh \in BOOLEAN}

----------------------------------------------------------------------------
(* components/StudyView: derived values *)

\* card.archived, read as a condition (undefined is falsy)
isArchived(card) == "archived" \in DOMAIN card /\ card.archived

hasContentUntrimmed(card) == Len(card.q \o card.a) > 0
hasContent(card) == Len(Trim(card.q) \o Trim(card.a)) > 0

\* the map without its test of card.archived
indexOrMinusOneOfArchived(cards, index) ==
    IF hasContent(At(cards, index)) THEN index ELSE -1

\* cards.map(...): the index of an active card, -1 for any other
indexOrMinusOne(cards, index) ==
    IF ~isArchived(At(cards, index)) /\ hasContent(At(cards, index))
    THEN index ELSE -1

\* ....filter((index) => index >= 0)
getActiveIndices(cards) ==
    SelectSeq([k \in 1..Len(cards) |-> indexOrMinusOne(cards, k - 1)],
              LAMBDA index : index >= 0)

activeIndices == getActiveIndices(deck.cards)

done == cursor >= Len(order)

\* -1 stands for null
currentIndex == IF done THEN -1 ELSE At(order, cursor)

totalActive == Len(activeIndices)
remaining == IF done THEN 0 ELSE Len(order) - cursor
learned == totalActive - remaining

\* Math.round(x): the integer nearest to x, halves rounded up
RoundRatio(num, den) == (2 * num + den) \div (2 * den)

progressPercent ==
    IF totalActive = 0 THEN 0 ELSE RoundRatio(learned * 100, totalActive)

Session == [order |-> order, cursor |-> cursor, flipped |-> flipped,
            direction |-> direction, deck |-> deck]

\* the handlers of the three-card scenario, in the order they are invoked
Script == <<"archiveCurrent", "advance", "archiveCurrent", "advance",
            "archiveCurrent">>

\* bookkeeping of a handler named op
Track(op) ==
    /\ lastOp' = op
    /\ pre' = Session
    /\ scen' = (IF scen >= 0 /\ scen < Len(Script) /\ Script[scen + 1] = op
                THEN scen + 1 ELSE -1)
    /\ UNCHANGED deck0

----------------------------------------------------------------------------
(* utils/storage: the built-in deck; App: save *)

defaultDeck ==
    [schemaVersion |-> 1, name |-> "Sample Set",
     cards |-> <<[q |-> <<"x">>, a |-> <<"x">>]>>,
     defaults |-> [direction |-> "Q2A", shuffle |-> TRUE]]

\* App.save: setDeck(updatedDeck); saveDeck(updatedDeck)
save(updatedDeck) ==
    /\ deck' = updatedDeck
    /\ stored' = <<updatedDeck>>

----------------------------------------------------------------------------
(* utils/storage: JSON.stringify(deck) as UTF-16 code units, and hashDeck *)

Names == {"", "Sample Set", "Imported Set"}

\* the code units of a set name
NameCodes(n) ==
    CASE n = "" -> <<>>
      [] n = "Sample Set" -> <<83, 97, 109, 112, 108, 101, 32, 83, 101, 116>>
      [] n = "Imported Set" -> <<73, 109, 112, 111, 114, 116, 101, 100, 32, 83, 101, 116>>

\* the code units of a card text
TextCodes(t) == [k \in 1..Len(t) |-> IF t[k] = " " THEN 32 ELSE 120]

\* the code units of "Q2A" and "A2Q"
DirectionCodes(d) == IF d = "Q2A" THEN <<81, 50, 65>> ELSE <<65, 50, 81>>

\* the fixed parts of the text JSON.stringify writes for a deck
jsOpen == <<123, 34, 115, 99, 104, 101, 109, 97, 86, 101, 114, 115, 105, 111, 110, 34, 58, 49, 44, 34, 110, 97, 109, 101, 34, 58, 34>>    \* {"schemaVersion":1,"name":"
jsCards == <<34, 44, 34, 99, 97, 114, 100, 115, 34, 58, 91>>    \* ","cards":[
jsDefaults == <<93, 44, 34, 100, 101, 102, 97, 117, 108, 116, 115, 34, 58, 123, 34, 100, 105, 114, 101, 99, 116, 105, 111, 110, 34, 58, 34>>    \* ],"defaults":{"direction":"
jsShuffle == <<34, 44, 34, 115, 104, 117, 102, 102, 108, 101, 34, 58>>    \* ","shuffle":
jsClose == <<125, 125>>    \* }}
jsCardQ == <<123, 34, 113, 34, 58, 34>>    \* {"q":"
jsCardA == <<34, 44, 34, 97, 34, 58, 34>>    \* ","a":"
jsCardArchived == <<34, 44, 34, 97, 114, 99, 104, 105, 118, 101, 100, 34, 58>>    \* ","archived":
jsCardEnd == <<34, 125>>    \* "}
jsTrue == <<116, 114, 117, 101>>    \* true
jsFalse == <<102, 97, 108, 115, 101>>    \* false

BoolCodes(b) == IF b THEN jsTrue ELSE jsFalse

\* JSON.stringify of one card: a key that is undefined is left out
stringifyCard(card) ==
    jsCardQ \o TextCodes(card.q) \o jsCardA \o TextCodes(card.a) \o
    (IF "archived" \in DOMAIN card
     THEN jsCardArchived \o BoolCodes(card.archived) \o <<125>>
     ELSE jsCardEnd)

RECURSIVE stringifyCards(_)
stringifyCards(cards) ==
    IF Len(cards) = 0 THEN <<>>
    ELSE IF Len(cards) = 1 THEN stringifyCard(cards[1])
    ELSE stringifyCard(cards[1]) \o <<44>> \o stringifyCards(Tail(cards))

\* JSON.stringify(deck)
stringify(d) ==
    jsOpen \o NameCodes(d.name) \o jsCards \o stringifyCards(d.cards) \o
    jsDefaults \o DirectionCodes(d.defaults.direction) \o jsShuffle \o
    BoolCodes(d.defaults.shuffle) \o jsClose

\* a 32-bit word is kept as two 16-bit halves [hi, lo]
Word(hi, lo) == [hi |-> hi, lo |-> lo]

\* x ^ y for 0 <= x, y < 2^bits
RECURSIVE Xor(_, _, _)
Xor(x, y, bits) ==
    IF bits = 0 THEN 0
    ELSE IF y = 0 THEN x
    ELSE ((x + y) % 2) + 2 * Xor(x \div 2, y \div 2, bits - 1)

\* ((h << 5) + h) ^ c, in 32 bits; c is a code unit below 2^16
hashStep(h, c) ==
    LET lo33 == 33 * h.lo
        hi33 == 33 * h.hi + (lo33 \div 65536)
    IN  Word(hi33 % 65536, Xor(lo33 % 65536, c, 16))

\* for (let i = from; i <= to; i++) h = ((h << 5) + h) ^ json.charCodeAt(i),
\* the range folded by halves; the test on left only orders the evaluation
RECURSIVE hashLoop(_, _, _, _)
hashLoop(h, json, from, to) ==
    IF from > to THEN h
    ELSE IF from = to THEN hashStep(h, json[from])
    ELSE LET mid == (from + to) \div 2
             left == hashLoop(h, json, from, mid)
         IN  IF left.hi >= 0 THEN hashLoop(left, json, mid + 1, to) ELSE left

\* (h >>> 0).toString(36): the base-36 digits, most significant first
RECURSIVE toString36(_)
toString36(w) ==
    LET qHi == w.hi \div 36
        mid == (w.hi % 36) * 65536 + w.lo
        qLo == mid \div 36
        digit == mid % 36
    IN  IF qHi = 0 /\ qLo = 0 THEN <<digit>>
        ELSE toString36(Word(qHi, qLo)) \o <<digit>>

\* let h = 5381; for (...) h = ...; return (h >>> 0).toString(36)
hashDeck(d) ==
    LET text == stringify(d)
    IN  toString36(hashLoop(Word(0, 5381), text, 1, Len(text)))

----------------------------------------------------------------------------
(* JSON documents: what JSON.parse returns, kept as tagged values *)

JUndefined == [t |-> "undefined"]
JNull == [t |-> "null"]
JBool(b) == [t |-> "bool", b |-> b]
JNum(n) == [t |-> "num", n |-> n]
JStr(s) == [t |-> "str", s |-> s]
\* a string the model keeps whole: a set name, a direction
JAtom(s) == [t |-> "str", s |-> s, atom |-> TRUE]
JArr(items) == [t |-> "arr", items |-> items]
JObj(f) == [t |-> "obj", f |-> f]

\* a file or stored item whose text JSON.parse rejects
Malformed == [t |-> "malformed"]

\* v.field: the reading of a property; on null and undefined it throws
Throws(v) == v.t \in {"null", "undefined"}
Prop(v, field) ==
    IF v.t = "obj" /\ field \in DOMAIN v.f THEN v.f[field] ELSE JUndefined

\* Boolean(v)
Truthy(v) ==
    CASE v.t = "bool" -> v.b
      [] v.t = "num" -> v.n # 0
      [] v.t = "str" -> (IF "atom" \in DOMAIN v THEN v.s # "" ELSE v.s # <<>>)
      [] v.t \in {"arr", "obj"} -> TRUE
      [] OTHER -> FALSE

\* v ?? fallback
Nullish(v) == v.t \in {"null", "undefined"}

\* JSON.parse(JSON.stringify(deck, null, 2)): the document an export writes
cardToJSON(card) ==
    IF "archived" \in DOMAIN card
    THEN JObj([q |-> JStr(card.q), a |-> JStr(card.a),
               archived |-> JBool(card.archived)])
    ELSE JObj([q |-> JStr(card.q), a |-> JStr(card.a)])

toJSON(d) ==
    JObj([schemaVersion |-> JNum(d.schemaVersion),
          name |-> JAtom(d.name),
          cards |-> JArr([k \in 1..Len(d.cards) |-> cardToJSON(d.cards[k])]),
          defaults |-> JObj([direction |-> JAtom(d.defaults.direction),
                             shuffle |-> JBool(d.defaults.shuffle)])])

\* v?.field
OptProp(v, field) == IF Nullish(v) THEN JUndefined ELSE Prop(v, field)

\* v === 1
IsOne(v) == v.t = "num" /\ v.n = 1

\* String(v) of a string or a boolean
StringOf(v) ==
    CASE v.t = "str" -> v.s
      [] v.t = "bool" -> (IF v.b THEN <<"t", "r", "u", "e">>
                          ELSE <<"f", "a", "l", "s", "e">>)

----------------------------------------------------------------------------
(* utils/storage: loadDeck; EditView.importJSON: reading the chosen file *)

\* loadDeck(): <<>> is null; the parsed object is returned as it is
loadDeck(item) ==
    IF item = <<>> THEN <<>>
    ELSE LET obj == item[1]
         IN  IF obj.t = "malformed" THEN <<>>
             ELSE IF Throws(obj) THEN <<>>
             ELSE IF ~IsOne(Prop(obj, "schemaVersion")) THEN <<>>
             ELSE <<obj>>

\* the Deck a parsed object is when its fields have the types of Deck
cardFromJSON(c) ==
    IF "archived" \in DOMAIN c.f
    THEN [q |-> c.f.q.s, a |-> c.f.a.s, archived |-> c.f.archived.b]
    ELSE [q |-> c.f.q.s, a |-> c.f.a.s]

fromJSON(obj) ==
    [schemaVersion |-> obj.f.schemaVersion.n,
     name |-> obj.f.name.s,
     cards |-> [k \in 1..Len(obj.f.cards.items) |->
                    cardFromJSON(obj.f.cards.items[k])],
     defaults |-> [direction |-> obj.f.defaults.f.direction.s,
                   shuffle |-> obj.f.defaults.f.shuffle.b]]

\* the first render of EditView throws: deck.defaults.direction of useState,
\* cards.map of activeCards
renderThrows(obj) ==
    \/ Throws(Prop(obj, "defaults"))
    \/ Prop(obj, "cards").t # "arr"

\* String(card.q ?? "")
textField(card, k) ==
    LET v == Prop(card, k) IN IF Nullish(v) THEN <<>> ELSE StringOf(v)

importedCard(card) ==
    [q |-> textField(card, "q"), a |-> textField(card, "a"),
     archived |-> Truthy(Prop(card, "archived"))]

\* the try block of reader.onchange throws
importThrowsSkipsVersion(raw) ==
    \/ raw.t = "malformed"
    \/ Throws(raw)
    \/ Prop(raw, "cards").t # "arr"
    \/ \E k \in 1..Len(Prop(raw, "cards").items) :
           Throws(Prop(raw, "cards").items[k])
importThrows(raw) ==
    \/ raw.t = "malformed"
    \/ Throws(raw)
    \/ ~IsOne(Prop(raw, "schemaVersion"))
    \/ Prop(raw, "cards").t # "arr"
    \/ \E k \in 1..Len(Prop(raw, "cards").items) :
           Throws(Prop(raw, "cards").items[k])

\* json.name || "Imported Set"
importedName(v) == IF Truthy(v) THEN v.s ELSE "Imported Set"

\* what the try block hands to setName, setCards, setDirection, setShuffle
imported(json) ==
    LET items == Prop(json, "cards").items
        dir == OptProp(Prop(json, "defaults"), "direction")
    IN  [name |-> importedName(Prop(json, "name")),
         cards |-> [k \in 1..Len(items) |-> importedCard(items[k])],
         direction |-> (IF dir.t = "str" /\ "atom" \in DOMAIN dir /\ dir.s = "A2Q"
                        THEN "A2Q" ELSE "Q2A"),
         shuffle |-> Truthy(OptProp(Prop(json, "defaults"), "shuffle"))]

----------------------------------------------------------------------------
(* components/StudyView: mount, the [deck] effect and the handlers *)

\* the first render of a StudyView: the initial values of its useState calls
StudyViewMount ==
    /\ deck \in Decks \cup {defaultDeck}
    /\ stored \in (IF deck = defaultDeck THEN {<<>>, <<deck>>} ELSE {<<deck>>})
    /\ direction = deck.defaults.direction
    /\ flipped = FALSE
    /\ order = getActiveIndices(deck.cards)
    /\ cursor = 0
    /\ pc = "effect"
    /\ lastOp = "mount"
    /\ pre = Session
    /\ deck0 = deck
    /\ scen = 0

\* what the [deck] effect assigns to direction
effectDirectionKeep(d) == direction
effectDirection(d) == d.defaults.direction

\* React.useEffect(() => {...}, [deck]): runs after the render that saw a new deck
sessionInitEffect ==
    /\ pc = "effect"
    /\ LET indices == getActiveIndices(deck.cards) IN
         IF deck.defaults.shuffle
         THEN \E draws \in DrawSeqs(indices, 0) :
                  order' = shuffleInPlace(indices, 0, draws)
         ELSE order' = indices
    /\ cursor' = 0
    /\ flipped' = FALSE
    /\ direction' = effectDirection(deck)
    /\ pc' = "idle"
    /\ UNCHANGED <<deck, stored, lastOp, pre, deck0, scen>>

flipCard ==
    /\ pc = "idle"
    /\ flipped' = ~flipped
    /\ Track("flip")
    /\ UNCHANGED <<deck, stored, order, cursor, direction, pc>>

\* goToNext without its first line
goToNextUnguarded ==
    /\ pc = "idle"
    /\ cursor' = cursor + 1
    /\ flipped' = FALSE
    /\ Track("advance")
    /\ UNCHANGED <<deck, stored, order, direction, pc>>

\* goToNext that returns early one card too soon
goToNextStopsEarly ==
    /\ pc = "idle"
    /\ IF cursor + 1 >= Len(order)
       THEN UNCHANGED <<cursor, flipped>>
       ELSE /\ cursor' = cursor + 1
            /\ flipped' = FALSE
    /\ Track("advance")
    /\ UNCHANGED <<deck, stored, order, direction, pc>>

goToNext ==
    /\ pc = "idle"
    /\ IF done
       THEN UNCHANGED <<cursor, flipped>>
       ELSE /\ cursor' = (LET nextCursor == cursor + 1 IN
                            IF nextCursor > Len(order) THEN Len(order)
                            ELSE nextCursor)
            /\ flipped' = FALSE
    /\ Track("advance")
    /\ UNCHANGED <<deck, stored, order, direction, pc>>

\* goToPrevious without its setFlipped(false)
goToPreviousKeepsFlipped ==
    /\ pc = "idle"
    /\ cursor' = (IF cursor <= 0 THEN 0 ELSE cursor - 1)
    /\ Track("retreat")
    /\ UNCHANGED <<deck, stored, order, flipped, direction, pc>>

goToPrevious ==
    /\ pc = "idle"
    /\ cursor' = (IF cursor <= 0 THEN 0 ELSE cursor - 1)
    /\ flipped' = FALSE
    /\ Track("retreat")
    /\ UNCHANGED <<deck, stored, order, direction, pc>>

\* reshuffleAll without its setCursor(0)
reshuffleAllKeepsCursor ==
    /\ pc = "idle"
    /\ \E draws \in DrawSeqs(order, 0) : order' = shuffleInPlace(order, 0, draws)
    /\ flipped' = FALSE
    /\ Track("reshuffleAll")
    /\ UNCHANGED <<deck, stored, cursor, direction, pc>>

reshuffleAll ==
    /\ pc = "idle"
    /\ \E draws \in DrawSeqs(order, 0) : order' = shuffleInPlace(order, 0, draws)
    /\ cursor' = 0
    /\ flipped' = FALSE
    /\ Track("reshuffleAll")
    /\ UNCHANGED <<deck, stored, direction, pc>>

\* { ...card, archived: true }
archivedCopyFalse(card) == [q |-> card.q, a |-> card.a, archived |-> FALSE]
archivedCopy(card) == [q |-> card.q, a |-> card.a, archived |-> TRUE]

\* deck.cards.map((card, index) => index === currentIndex ? {...} : card)
archiveAt(cards, index) ==
    [k \in 1..Len(cards) |-> IF k - 1 = index THEN archivedCopy(cards[k])
                             ELSE cards[k]]

\* order.filter((index) => index !== currentIndex)
updatedOrderUnfiltered(ord, index) == ord
updatedOrder(ord, index) == SelectSeq(ord, LAMBDA i : i # index)

archiveCurrentCard ==
    /\ pc = "idle"
    /\ IF done \/ currentIndex = -1
       THEN UNCHANGED <<deck, stored, order, cursor, flipped, pc>>
       ELSE LET newOrder == updatedOrder(order, currentIndex) IN
            /\ save([deck EXCEPT !.cards = archiveAt(deck.cards, currentIndex)])
            /\ order' = newOrder
            /\ flipped' = FALSE
            /\ cursor' = (IF cursor >= Len(newOrder)
                          THEN Max(0, Len(newOrder) - 1) ELSE cursor)
            /\ pc' = "effect"
    /\ Track("archiveCurrent")
    /\ UNCHANGED direction

\* setDirection((previous) => (previous === "Q2A" ? "A2Q" : "Q2A"))
\* a toggleDirection that also turns the card back
toggleDirectionTurnsBack ==
    /\ pc = "idle"
    /\ direction' = (IF direction = "Q2A" THEN "A2Q" ELSE "Q2A")
    /\ flipped' = FALSE
    /\ Track("toggleDirection")
    /\ UNCHANGED <<deck, stored, order, cursor, pc>>

toggleDirection ==
    /\ pc = "idle"
    /\ direction' = (IF direction = "Q2A" THEN "A2Q" ELSE "Q2A")
    /\ Track("toggleDirection")
    /\ UNCHANGED <<deck, stored, order, cursor, flipped, pc>>

\* event.key.toLowerCase() of the keydown events
Keys == {" ", "g", "arrowright", "arrowleft", "d", "s", "enter"}

\* !event.repeat
isPressOrRepeat(repeat) == TRUE
isPress(repeat) == ~repeat

\* the listener returns without calling a handler
keyIgnored ==
    /\ pc = "idle"
    /\ Track("keyIgnored")
    /\ UNCHANGED <<deck, stored, order, cursor, flipped, direction, pc>>

\* the keydown listener of the window; typing: the focus is in a field
handleKeyDown ==
    \E k \in Keys, repeat \in BOOLEAN, typing \in BOOLEAN :
        /\ lastKey' = (IF repeat /\ k \in {" ", "g"} THEN k
                       ELSE IF k = "enter" /\ ~repeat /\ ~typing THEN k
                       ELSE "")
        /\ IF typing THEN keyIgnored
           ELSE IF k = " " /\ isPress(repeat) THEN flipCard
           ELSE IF k = "g" /\ isPress(repeat)
                THEN (IF done THEN reshuffleAll ELSE archiveCurrentCard)
           ELSE IF k = "arrowright" THEN goToNext
           ELSE IF k = "arrowleft" THEN goToPrevious
           ELSE IF k = "d" THEN toggleDirection
           ELSE IF k = "s" THEN reshuffleAll
           ELSE keyIgnored

----------------------------------------------------------------------------
(* A call of shuffleInPlace on its own *)

Elems == 1..MaxLen

shuffleCallInit ==
    /\ sArr \in SeqsUpTo(Elems, MaxLen)
    /\ sStart \in 0..Len(sArr)
    /\ sOut = sArr
    /\ sPc = "call"

shuffleCall ==
    /\ sPc = "call"
    /\ \E draws \in DrawSeqs(sArr, sStart) :
           sOut' = shuffleInPlace(sArr, sStart, draws)
    /\ sPc' = "returned"
    /\ UNCHANGED <<sArr, sStart>>

----------------------------------------------------------------------------
(* components/EditView: useDebounced *)

isNotRef(e) == ~e.ref

\* clearTimeout(timerRef.current) where timerRef.current is not null
clearRef(ts) == SelectSeq(ts, isNotRef)

\* trigger(): clear the timer timerRef holds, arm one whose callback closes
\* over the states of the render that called it
trigger(ts, snap) ==
    Append(clearRef(ts), [snap |-> snap, ref |-> TRUE, disposed |-> FALSE])

\* cancel()
cancel(ts) == clearRef(ts)

\* the cleanup of useEffect(() => { return () => cancel(); }, [])
cleanupKeepsTimer(ts) == ts
cleanup(ts) == cancel(ts)

\* EditView unmounts: its cleanup runs, what it leaves armed is a disposed
\* view's timer
unmount(ts) ==
    LET left == cleanup(ts)
    IN  [k \in 1..Len(left) |-> [left[k] EXCEPT !.ref = FALSE, !.disposed = TRUE]]

----------------------------------------------------------------------------
(* components/EditView and App: states, startup, handlers *)

\* const [name..], [cards..], [direction..], [shuffle..] = useState(deck. ...)
WorkOf(d) ==
    [name |-> d.name, cards |-> d.cards,
     direction |-> d.defaults.direction, shuffle |-> d.defaults.shuffle]

\* updatedDeck of the debounced callback
DeckOf(w) ==
    [schemaVersion |-> 1, name |-> w.name, cards |-> w.cards,
     defaults |-> [direction |-> w.direction, shuffle |-> w.shuffle]]

\* the states of an EditView that is not mounted
NoWork == [name |-> "", cards |-> <<>>, direction |-> "Q2A", shuffle |-> FALSE]

\* the session variables while no StudyView is followed
NoSession == [order |-> <<>>, cursor |-> 0, flipped |-> FALSE,
              direction |-> "Q2A", deck |-> defaultDeck]

studyIdle ==
    /\ order = <<>> /\ cursor = 0 /\ flipped = FALSE /\ direction = "Q2A"
    /\ pc = "unmounted" /\ lastOp = "mount" /\ pre = NoSession
    /\ deck0 = defaultDeck /\ scen = -1 /\ lastKey = ""

\* bookkeeping of a handler named op that was given arg
Note(op, arg) == eOp' = op /\ eArg' = arg

\* the texts typed into a card
EditTexts == {<<>>, <<"x">>}

\* documents kept in a file or in localStorage
versionTwoDoc ==
    JObj([schemaVersion |-> JNum(2), name |-> JAtom("Sample Set"),
          cards |-> JArr(<<>>),
          defaults |-> JObj([direction |-> JAtom("Q2A"), shuffle |-> JBool(TRUE)])])
cardsTextDoc ==
    JObj([schemaVersion |-> JNum(1), name |-> JAtom("Sample Set"),
          cards |-> JStr(<<"x">>),
          defaults |-> JObj([direction |-> JAtom("Q2A"), shuffle |-> JBool(TRUE)])])
noCardsDoc ==
    JObj([schemaVersion |-> JNum(1), name |-> JAtom("Sample Set"),
          defaults |-> JObj([direction |-> JAtom("Q2A"), shuffle |-> JBool(TRUE)])])
nullCardDoc ==
    JObj([schemaVersion |-> JNum(1), name |-> JAtom("Sample Set"),
          cards |-> JArr(<<JNull>>),
          defaults |-> JObj([direction |-> JAtom("A2Q"), shuffle |-> JBool(TRUE)])])
sparseCardDoc ==
    JObj([schemaVersion |-> JNum(1), name |-> JAtom("Sample Set"),
          cards |-> JArr(<<JObj([q |-> JStr(<<"x">>)]), JObj([a |-> JNull])>>),
          defaults |-> JObj([direction |-> JAtom("A2Q"), shuffle |-> JBool(TRUE)])])
bareDoc ==
    JObj([schemaVersion |-> JNum(1), cards |-> JArr(<<>>)])

BootDecks ==
    { [schemaVersion |-> 1, name |-> "",
       cards |-> <<[q |-> <<"x">>, a |-> <<>>, archived |-> TRUE],
                   [q |-> <<>>, a |-> <<"x">>]>>,
       defaults |-> [direction |-> "A2Q", shuffle |-> FALSE]] }

BootItems ==
    {<<>>, <<Malformed>>, <<versionTwoDoc>>, <<cardsTextDoc>>, <<noCardsDoc>>}
        \cup {<<toJSON(d)>> : d \in BootDecks}

ImportDocs ==
    {Malformed, versionTwoDoc, cardsTextDoc, nullCardDoc, sparseCardDoc, bareDoc}

\* hashDeck(defaultDeck())
defaultKey == hashDeck(defaultDeck)

\* App and EditView after the first render and its effects
AppStart ==
    /\ \E item \in BootItems :
        LET loaded == loadDeck(item)
        IN  /\ crashed = (loaded # <<>> /\ renderThrows(loaded[1]))
            /\ deck = (IF loaded = <<>> THEN defaultDeck
                       ELSE IF renderThrows(loaded[1]) THEN loaded[1]
                       ELSE fromJSON(loaded[1]))
            /\ stored = (IF loaded # <<>> /\ ~renderThrows(loaded[1])
                         THEN <<deck>> ELSE item)
    /\ key = (IF crashed THEN <<>>
              ELSE IF deck = defaultDeck THEN defaultKey ELSE hashDeck(deck))
    /\ storedHash \in (IF crashed THEN {<<>>} ELSE {<<>>, <<key>>})
    /\ exportedHash = storedHash
    /\ mode = "edit"
    /\ work = (IF crashed THEN NoWork ELSE WorkOf(deck))
    /\ timers = (IF crashed THEN <<>> ELSE trigger(<<>>, work))
    /\ hosted \in BOOLEAN
    /\ notice = ""
    /\ file = <<>>
    /\ steps = 0
    /\ eOp = "start" /\ eArg = JNull

\* hashDeck(d) of a render, given that key is hashDeck(deck)
keyOf(d) ==
    IF d = deck THEN key ELSE IF d = defaultDeck THEN defaultKey ELSE hashDeck(d)

\* App renders with a replaced deck while it shows EditView: a changed key
\* remounts the view; else the view renders, scheduleSave runs, the [deck]
\* effect sets the states and the render that follows runs scheduleSave
renderReplaced(ts, newKey, newDeck, message) ==
    /\ work' = WorkOf(newDeck)
    /\ IF newKey # key
       THEN /\ timers' = trigger(unmount(ts), WorkOf(newDeck))
            /\ notice' = ""
       ELSE /\ timers' = trigger(trigger(ts, work), WorkOf(newDeck))
            /\ notice' = message

\* the user invokes a handler
invoked ==
    /\ ~crashed
    /\ steps < MaxSteps
    /\ steps' = steps + 1
    /\ UNCHANGED <<crashed, hosted, themeVars>>

\* a state setter of EditView was given newWork: render, scheduleSave
edit(op, arg, newWork) ==
    /\ mode = "edit" /\ invoked
    /\ work' = newWork
    /\ timers' = trigger(timers, newWork)
    /\ Note(op, arg)
    /\ UNCHANGED <<sessionVars, mode, key, exportedHash, storedHash, file,
                   notice>>

setName ==
    \E n \in Names \ {work.name} :
        edit("setName", JNull, [work EXCEPT !.name = n])

setDirection ==
    \E d \in Directions \ {work.direction} :
        edit("setDirection", JNull, [work EXCEPT !.direction = d])

setShuffle ==
    \E b \in BOOLEAN \ {work.shuffle} :
        edit("setShuffle", JNull, [work EXCEPT !.shuffle = b])

addCard ==
    /\ Len(work.cards) < MaxCards
    /\ edit("addCard", JNull,
            [work EXCEPT !.cards = Append(@, [q |-> <<>>, a |-> <<>>])])

\* previousCards.filter((_, currentIndex) => currentIndex !== index)
withoutCard(cards, index) ==
    [k \in 1..(Len(cards) - 1) |-> IF k <= index THEN cards[k] ELSE cards[k + 1]]

\* { ...card, ...patch }
patched(card, patch) ==
    [f \in DOMAIN card \cup DOMAIN patch |->
        IF f \in DOMAIN patch THEN patch[f] ELSE card[f]]

\* previousCards.map(... currentIndex === index ? patched : card)
withCard(cards, index, patch) ==
    [k \in 1..Len(cards) |->
        IF k = index + 1 THEN patched(cards[k], patch) ELSE cards[k]]

\* the Delete button of an active card
deleteCard ==
    \E index \in 0..(Len(work.cards) - 1) :
        /\ ~isArchived(At(work.cards, index))
        /\ edit("deleteCard", JNull,
                [work EXCEPT !.cards = withoutCard(@, index)])

\* the question and answer fields of a card
updateCard ==
    \E index \in 0..(Len(work.cards) - 1), t \in EditTexts :
        \/ /\ t # At(work.cards, index).q
           /\ edit("updateCard", JNull,
                   [work EXCEPT !.cards = withCard(@, index, [q |-> t])])
        \/ /\ t # At(work.cards, index).a
           /\ edit("updateCard", JNull,
                   [work EXCEPT !.cards = withCard(@, index, [a |-> t])])

\* the Archive button of an active card, the Restore button of an archived one
setArchivedState ==
    \E index \in 0..(Len(work.cards) - 1) :
        LET archived == ~isArchived(At(work.cards, index))
        IN  edit("setArchivedState", JNull,
                 [work EXCEPT !.cards = withCard(@, index, [archived |-> archived])])

\* importJSON: cancelSave(), the confirmation, the file dialog, reader.onchange
importJSON ==
    /\ mode = "edit" /\ invoked
    /\ \E confirmed \in BOOLEAN, chosen \in {<<>>} \cup {<<d>> : d \in ImportDocs} \cup {file} :
        /\ (~confirmed => chosen = <<>>)
        /\ IF ~confirmed \/ chosen = <<>>
           THEN /\ timers' = cancel(timers)
                /\ Note(IF confirmed THEN "importNoFile" ELSE "importDeclined", JNull)
                /\ UNCHANGED <<work, notice>>
           ELSE IF importThrows(chosen[1])
           THEN /\ timers' = cancel(timers)
                /\ notice' = "Import failed"
                /\ Note("importFailed", chosen[1])
                /\ UNCHANGED work
           ELSE /\ work' = imported(chosen[1])
                /\ timers' = trigger(cancel(timers), work')
                /\ notice' = "Set imported"
                /\ Note("imported", chosen[1])
    /\ UNCHANGED <<sessionVars, mode, key, exportedHash, storedHash, file>>

\* exportJSON with onExportHeader: App.onExport, and the render that follows
\* when exportedHash has changed; without it: the working copy is serialized
\* and downloaded
exportJSON ==
    /\ mode = "edit" /\ invoked
    /\ IF hosted
       THEN /\ file' = <<toJSON(deck)>>
            /\ storedHash' = <<key>>
            /\ exportedHash' = <<key>>
            /\ timers' = (IF exportedHash # <<key>> THEN trigger(timers, work)
                          ELSE timers)
       ELSE /\ file' = <<toJSON(DeckOf(work))>>
            /\ UNCHANGED <<storedHash, exportedHash, timers>>
    /\ Note("exportJSON", JNull)
    /\ UNCHANGED <<sessionVars, mode, key, work, notice>>

\* handleNewClick: cancelSave(); App.onNew
handleNewClick ==
    /\ mode = "edit" /\ invoked
    /\ LET isDirty == exportedHash # <<key>> IN
       \E confirmed \in BOOLEAN :
        /\ (~isDirty => confirmed)
        /\ Note(IF confirmed THEN "newSet" ELSE "newDeclined", JBool(isDirty))
        /\ IF ~confirmed
           THEN /\ timers' = cancel(timers)
                /\ UNCHANGED <<deck, stored, key, exportedHash, work, notice>>
           ELSE /\ save(defaultDeck)
                /\ exportedHash' = <<>>
                /\ key' = keyOf(defaultDeck)
                /\ renderReplaced(cancel(timers), key', defaultDeck, notice)
    /\ UNCHANGED <<studyVars, mode, storedHash, file>>

\* the Study button: EditView unmounts
setModeStudy ==
    /\ mode = "edit" /\ invoked
    /\ mode' = "study"
    /\ timers' = unmount(timers)
    /\ work' = NoWork
    /\ notice' = ""
    /\ Note("setModeStudy", JNull)
    /\ UNCHANGED <<sessionVars, key, exportedHash, storedHash, file>>

\* the Edit button: EditView mounts, scheduleSave runs
setModeEdit ==
    /\ mode = "study" /\ invoked
    /\ mode' = "edit"
    /\ work' = WorkOf(deck)
    /\ timers' = trigger(timers, work')
    /\ notice' = ""
    /\ Note("setModeEdit", JNull)
    /\ UNCHANGED <<sessionVars, key, exportedHash, storedHash, file>>

Themes == {"auto", "light", "dark"}

\* what localStorage may hold under the theme key at startup
ThemeItems == {<<>>, <<"">>, <<"auto">>, <<"light">>, <<"dark">>, <<"sepia">>}

\* localStorage.getItem(THEME_KEY) || "auto"
loadTheme(item) == IF item = <<>> \/ item[1] = "" THEN "auto" ELSE item[1]

\* useState(() => loadTheme()), and the [theme] effect of the first render,
\* which does not run when that render has thrown
themeStart ==
    \E item \in ThemeItems :
        /\ theme = loadTheme(item)
        /\ themeItem = (IF crashed THEN item ELSE <<theme>>)
        /\ dataTheme = (IF crashed THEN <<>> ELSE <<theme>>)

\* nothing stored under the theme key: the App runs with "auto"
themeIdle == theme = "auto" /\ themeItem = <<"auto">> /\ dataTheme = <<"auto">>

\* the theme select: setTheme, the render of App (with it EditView and its
\* scheduleSave effect), the [theme] effect
setTheme ==
    /\ ~crashed
    /\ steps < MaxSteps
    /\ steps' = steps + 1
    /\ \E t \in Themes :
        /\ theme' = t
        /\ dataTheme' = (IF t # theme THEN <<t>> ELSE dataTheme)
        /\ themeItem' = (IF t # theme THEN <<t>> ELSE themeItem)
        /\ timers' = (IF t # theme /\ mode = "edit" THEN trigger(timers, work)
                      ELSE timers)
        /\ Note("setTheme", JAtom(t))
    /\ UNCHANGED <<sessionVars, mode, key, exportedHash, storedHash, file, work,
                   notice, crashed, hosted>>

withoutTimer(ts, i) ==
    [k \in 1..(Len(ts) - 1) |-> IF k < i THEN ts[k] ELSE ts[k + 1]]

\* a timer of useDebounced fires: the debounced callback, App.save, the render
timerFires ==
    /\ ~crashed
    /\ \E i \in 1..Len(timers) :
        LET e == timers[i]
            rest == withoutTimer(timers, i)
            updatedDeck == DeckOf(e.snap)
        IN  /\ save(updatedDeck)
            /\ key' = keyOf(updatedDeck)
            /\ IF mode = "edit"
               THEN renderReplaced(rest, key', updatedDeck,
                                   IF e.disposed THEN notice ELSE "Set saved")
               ELSE timers' = rest /\ UNCHANGED <<work, notice>>
            /\ Note("timerFires", JBool(e.disposed))
    /\ UNCHANGED <<studyVars, mode, exportedHash, storedHash, file, crashed, hosted,
                   themeVars, steps>>

----------------------------------------------------------------------------
(* Specifications *)

\* no shuffleInPlace call of its own is in progress
shuffleIdle == sArr = <<>> /\ sStart = 0 /\ sOut = <<>> /\ sPc = "returned"

\* App shows the StudyView; the editor is not followed
editorIdle ==
    /\ mode = "study" /\ key = <<>> /\ exportedHash = <<>> /\ storedHash = <<>>
    /\ file = <<>> /\ work = NoWork /\ timers = <<>> /\ notice = ""
    /\ crashed = FALSE /\ hosted = TRUE /\ themeIdle /\ steps = 0
    /\ eOp = "start" /\ eArg = JNull

\* the study session
Init ==
    /\ StudyViewMount
    /\ lastKey = ""
    /\ shuffleIdle
    /\ editorIdle

Next ==
    \/ sessionInitEffect /\ UNCHANGED <<lastKey, shuffleVars, editVars>>
    \/ flipCard /\ lastKey' = "" /\ UNCHANGED <<shuffleVars, editVars>>
    \/ goToNext /\ lastKey' = "" /\ UNCHANGED <<shuffleVars, editVars>>
    \/ goToPrevious /\ lastKey' = "" /\ UNCHANGED <<shuffleVars, editVars>>
    \/ reshuffleAll /\ lastKey' = "" /\ UNCHANGED <<shuffleVars, editVars>>
    \/ archiveCurrentCard /\ lastKey' = "" /\ UNCHANGED <<shuffleVars, editVars>>
    \/ toggleDirection /\ lastKey' = "" /\ UNCHANGED <<shuffleVars, editVars>>
    \/ handleKeyDown /\ UNCHANGED <<shuffleVars, editVars>>

Spec == Init /\ [][Next]_vars

\* shuffleInPlace applied to every array and startIndex within the bounds
ShuffleInit ==
    /\ shuffleCallInit
    /\ deck = defaultDeck /\ stored = <<>> /\ order = <<>> /\ cursor = 0
    /\ flipped = FALSE /\ direction = "Q2A" /\ pc = "idle" /\ lastOp = "mount"
    /\ pre = Session /\ deck0 = defaultDeck /\ scen = -1 /\ lastKey = ""
    /\ editorIdle

ShuffleNext == shuffleCall /\ UNCHANGED <<sessionVars, editVars>>

SpecShuffle == ShuffleInit /\ [][ShuffleNext]_vars

\* the App with its editor, from startup
EditInit ==
    /\ AppStart
    /\ themeIdle
    /\ studyIdle
    /\ shuffleIdle

EditNext ==
    \/ setName /\ UNCHANGED shuffleVars
    \/ setDirection /\ UNCHANGED shuffleVars
    \/ setShuffle /\ UNCHANGED shuffleVars
    \/ addCard /\ UNCHANGED shuffleVars
    \/ deleteCard /\ UNCHANGED shuffleVars
    \/ updateCard /\ UNCHANGED shuffleVars
    \/ setArchivedState /\ UNCHANGED shuffleVars
    \/ importJSON /\ UNCHANGED shuffleVars
    \/ exportJSON /\ UNCHANGED shuffleVars
    \/ handleNewClick /\ UNCHANGED shuffleVars
    \/ setModeStudy /\ UNCHANGED shuffleVars
    \/ setModeEdit /\ UNCHANGED shuffleVars
    \/ timerFires /\ UNCHANGED shuffleVars

SpecEdit == EditInit /\ [][EditNext]_vars

\* the App from startup, with what is stored under the theme key
ThemeInit ==
    /\ AppStart
    /\ themeStart
    /\ studyIdle
    /\ shuffleIdle

ThemeNext ==
    \/ setTheme /\ UNCHANGED shuffleVars
    \/ setModeStudy /\ UNCHANGED shuffleVars
    \/ setModeEdit /\ UNCHANGED shuffleVars
    \/ timerFires /\ UNCHANGED shuffleVars

SpecTheme == ThemeInit /\ [][ThemeNext]_vars

----------------------------------------------------------------------------
(* Properties of the study session (checked under Spec) *)

\* the last handler was archiveCurrentCard, invoked in an Active state
archivedInActive ==
    lastOp = "archiveCurrent" /\ pre.cursor < Len(pre.order)

\* the session has just been initialized by the [deck] effect
freshlyInitialized ==
    pc = "idle" /\ (lastOp = "mount" \/ archivedInActive)

\* s without its element at position i (0-based)
RemoveAt(s, i) == SubSeq(s, 1, i) \o SubSeq(s, i + 2, Len(s))

\* C1: in every reachable state 0 <= cursor <= length(order), and the session
\* is Done (the code's done flag) exactly when cursor = length(order).
C1_CursorInRange ==
    /\ cursor \in 0..Len(order)
    /\ done <=> (cursor = Len(order))

\* an advance has moved the session from its last card to Done
C1_Witness ==
    /\ lastOp = "advance"
    /\ pre.cursor = Len(pre.order) - 1
    /\ cursor = Len(order)
    /\ Len(order) >= 2

\* C2: once the write-back and the [deck] effect have been applied, an
\* archiveCurrent invoked in an Active state has made order exactly one
\* shorter and has not left cursor beyond length(order); shuffle decks included.
C2_ArchiveShrinksOrder ==
    (pc = "idle" /\ archivedInActive) =>
        /\ Len(order) = Len(pre.order) - 1
        /\ cursor <= Len(order)

\* a card of a shuffling deck has been archived and the session has settled
C2_Witness ==
    /\ pc = "idle"
    /\ archivedInActive
    /\ deck.defaults.shuffle
    /\ pre.cursor >= 1
    /\ Len(order) >= 2

\* C3 (as claimed): after archiveCurrent in an Active state with order = o and
\* cursor = c the settled session has order = o without o[c], flipped = false,
\* and cursor = c, clamped to max(0, length(order) - 1) when c >= length(order).
C3_ArchiveKeepsPlace ==
    (pc = "idle" /\ archivedInActive) =>
        /\ order = RemoveAt(pre.order, pre.cursor)
        /\ flipped = FALSE
        /\ cursor = (IF pre.cursor >= Len(order)
                     THEN Max(0, Len(order) - 1) ELSE pre.cursor)

\* the deck of the scenario: three cards, all active, shuffle = false, Q2A
isScenarioDeck(d) ==
    /\ Len(d.cards) = 3
    /\ getActiveIndices(d.cards) = <<0, 1, 2>>
    /\ ~d.defaults.shuffle
    /\ d.defaults.direction = "Q2A"

\* C4 (as claimed): on a deck with 3 active cards, shuffle = false, Q2A, the
\* session starts with order = [0,1,2], cursor = 0, remaining = 3, progress 0;
\* after archiveCurrent it has order = [1,2], cursor = 0, remaining = 2,
\* progress 33; after two more advance + archiveCurrent cycles it has
\* order = [], is Done, and progress is 100.
C4_ThreeCardScenario ==
    (isScenarioDeck(deck0) /\ pc = "idle") =>
        /\ scen = 0 =>
              /\ order = <<0, 1, 2>> /\ cursor = 0
              /\ remaining = 3 /\ progressPercent = 0
        /\ scen = 1 =>
              /\ order = <<1, 2>> /\ cursor = 0
              /\ remaining = 2 /\ progressPercent = 33
        /\ scen = 5 =>
              /\ order = <<>> /\ done /\ progressPercent = 100

\* C5: an advance from the last card moves the session to Done, and an advance
\* in Done changes none of cursor, order, flipped, direction.
C5_AdvanceAtEnd ==
    lastOp = "advance" =>
        /\ pre.cursor = Len(pre.order) - 1 =>
              /\ order = pre.order
              /\ cursor = Len(order)
        /\ pre.cursor >= Len(pre.order) =>
              /\ cursor = pre.cursor /\ order = pre.order
              /\ flipped = pre.flipped /\ direction = pre.direction

\* an advance was invoked in Done, on a deck with cards, with the card turned
C5_Witness ==
    /\ lastOp = "advance"
    /\ pre.cursor = Len(pre.order)
    /\ Len(pre.order) >= 1
    /\ pre.flipped

\* C6: in every reachable state, the render between an archiveCurrent and the
\* [deck] effect included, 0 <= remaining <= totalActive, progressPercent is
\* an integer in 0..100, and it is 0 when totalActive = 0.
C6_ProgressInRange ==
    /\ remaining \in 0..totalActive
    /\ progressPercent \in 0..100
    /\ totalActive = 0 => progressPercent = 0

\* the render right after an archiveCurrent, with progress strictly inside
C6_Witness ==
    /\ pc = "effect"
    /\ archivedInActive
    /\ progressPercent \in 1..99

\* the positions of the cards of d that are not archived and whose trimmed
\* question or trimmed answer is non-empty
ActivePositions(d) ==
    {i \in 0..(Len(d.cards) - 1) :
        /\ ~("archived" \in DOMAIN At(d.cards, i) /\ At(d.cards, i).archived)
        /\ (Trim(At(d.cards, i).q) # <<>> \/ Trim(At(d.cards, i).a) # <<>>)}

IsAscending(s) == \A m, n \in 1..Len(s) : m < n => s[m] < s[n]

\* C7: a session init on a deck with shuffle = false sets order to exactly the
\* ascending list of the active positions of the deck.
C7_InitKeepsDeckOrder ==
    (freshlyInitialized /\ ~deck.defaults.shuffle) =>
        /\ IsAscending(order)
        /\ Range(order) = ActivePositions(deck)

\* a non-shuffling deck with a white-space-only card and two active cards
C7_Witness ==
    /\ pc = "idle" /\ lastOp = "mount"
    /\ ~deck.defaults.shuffle
    /\ Len(order) = 2
    /\ \E k \in 1..Len(deck.cards) :
           /\ ~isArchived(deck.cards[k])
           /\ Len(deck.cards[k].q) > 0
           /\ k - 1 \notin Range(order)

\* C8: whenever the deck seen by the study view has changed (mount, or the
\* write-back of archiveCurrent) the session is reinitialized from the new deck
\* alone: order is a permutation of its active-index list (the list itself
\* unless defaults.shuffle), cursor = 0, flipped = false, direction = default.
C8_DeckChangeReinitializes ==
    freshlyInitialized =>
        /\ IsPermutationOf(order, getActiveIndices(deck.cards))
        /\ ~deck.defaults.shuffle => order = getActiveIndices(deck.cards)
        /\ cursor = 0
        /\ flipped = FALSE
        /\ direction = deck.defaults.direction

\* the write-back of an archiveCurrent found the session at a later card, with
\* the direction toggled, and the shuffle has reordered the remaining cards
C8_Witness ==
    /\ pc = "idle"
    /\ archivedInActive
    /\ pre.cursor >= 1
    /\ pre.direction # deck.defaults.direction
    /\ deck.defaults.shuffle
    /\ order # getActiveIndices(deck.cards)

\* C20: a keydown of space or g with repeat = true changes neither flipped
\* nor order nor cursor nor the deck
C20_RepeatIgnored ==
    lastKey \in {" ", "g"} =>
        /\ flipped = pre.flipped
        /\ order = pre.order
        /\ cursor = pre.cursor
        /\ deck = pre.deck

\* g is held down on a flipped card of an active session
C20_Witness ==
    /\ lastKey = "g"
    /\ pc = "idle"
    /\ ~done
    /\ flipped

\* the session the last handler found was Done
preDone == Len(pre.order) = 0 \/ pre.cursor >= Len(pre.order)

\* C21: a press of Enter in the study view, the focus not in a field, does
\* what G does: archiveCurrent in an Active session, reshuffleAll in Done
C21_EnterIsGotIt ==
    lastKey = "enter" =>
        lastOp = (IF preDone THEN "reshuffleAll" ELSE "archiveCurrent")

Min(a, b) == IF a <= b THEN a ELSE b

\* the last handler left order, direction and the deck as it found them
keptOrderDirectionDeck ==
    order = pre.order /\ direction = pre.direction /\ deck = pre.deck

\* C24 (as claimed): in every state, Active or Done, advance sets cursor to
\* min(cursor + 1, length(order)), retreat sets cursor to max(cursor - 1, 0),
\* and each leaves flipped = false and order, direction and the deck unchanged.
C24_AdvanceRetreatResetFlipped ==
    /\ lastOp = "advance" =>
           /\ cursor = Min(pre.cursor + 1, Len(pre.order))
           /\ flipped = FALSE
           /\ keptOrderDirectionDeck
    /\ lastOp = "retreat" =>
           /\ cursor = Max(pre.cursor - 1, 0)
           /\ flipped = FALSE
           /\ keptOrderDirectionDeck

\* C24 (amended): advance sets cursor to min(cursor + 1, length(order)) and
\* retreat sets cursor to max(cursor - 1, 0), each leaving order, direction and
\* the deck unchanged; retreat in every state and advance in an Active state
\* leave flipped = false, while advance in Done leaves flipped as it was.
C24_AdvanceRetreat ==
    /\ lastOp = "advance" =>
           /\ cursor = Min(pre.cursor + 1, Len(pre.order))
           /\ flipped = (IF preDone THEN pre.flipped ELSE FALSE)
           /\ keptOrderDirectionDeck
    /\ lastOp = "retreat" =>
           /\ cursor = Max(pre.cursor - 1, 0)
           /\ flipped = FALSE
           /\ keptOrderDirectionDeck

\* a retreat was invoked with the card turned, away from the first card
C24_Witness ==
    /\ lastOp = "retreat"
    /\ pre.flipped
    /\ pre.cursor >= 1
    /\ cursor = pre.cursor - 1

\* C25: reshuffleAll, in an Active state or in Done, leaves order a
\* permutation of the order it found, sets cursor = 0 and flipped = false and
\* changes neither direction nor the deck; from Done with a non-empty order the
\* session is Active afterwards.
C25_ReshuffleRestarts ==
    lastOp = "reshuffleAll" =>
        /\ IsPermutationOf(order, pre.order)
        /\ Len(order) = Len(pre.order)
        /\ cursor = 0
        /\ flipped = FALSE
        /\ direction = pre.direction /\ deck = pre.deck
        /\ (preDone /\ Len(pre.order) >= 1) => ~done

\* a reshuffleAll in Done has rearranged the order and restarted the session
C25_Witness ==
    /\ lastOp = "reshuffleAll"
    /\ pre.cursor = Len(pre.order)
    /\ Len(pre.order) >= 2
    /\ order # pre.order
    /\ ~done

\* C26: flip only toggles flipped and toggleDirection only swaps direction
\* between Q2A and A2Q: in every state each leaves cursor, order, the deck and
\* the other of the two fields unchanged.
C26_FlipAndToggleFrame ==
    /\ lastOp = "flip" =>
           /\ flipped = ~pre.flipped
           /\ direction = pre.direction
           /\ cursor = pre.cursor /\ order = pre.order /\ deck = pre.deck
    /\ lastOp = "toggleDirection" =>
           /\ direction = (IF pre.direction = "Q2A" THEN "A2Q" ELSE "Q2A")
           /\ flipped = pre.flipped
           /\ cursor = pre.cursor /\ order = pre.order /\ deck = pre.deck

\* the direction was toggled while a card past the first was turned
C26_Witness ==
    /\ lastOp = "toggleDirection"
    /\ pre.flipped /\ flipped
    /\ pre.cursor >= 1 /\ ~preDone
    /\ direction # pre.direction

\* newDeck is oldDeck with the card at position index (0-based) archived
\* and nothing else changed
archivedOnly(oldDeck, newDeck, index) ==
    /\ newDeck.schemaVersion = oldDeck.schemaVersion
    /\ newDeck.name = oldDeck.name
    /\ newDeck.defaults = oldDeck.defaults
    /\ Len(newDeck.cards) = Len(oldDeck.cards)
    /\ \A k \in 1..Len(oldDeck.cards) :
           IF k - 1 = index
           THEN /\ newDeck.cards[k].q = oldDeck.cards[k].q
                /\ newDeck.cards[k].a = oldDeck.cards[k].a
                /\ isArchived(newDeck.cards[k])
           ELSE newDeck.cards[k] = oldDeck.cards[k]

\* C27 (as claimed): archiveCurrent in an Active state writes back and
\* persists a deck that differs from the previous one only in the archived
\* flag of the card at order[cursor], and the direction the user has chosen
\* is still the session's direction once the session has settled; in Done
\* archiveCurrent changes nothing and saves nothing.
C27_ArchiveFrame ==
    [][/\ (pc = "idle" /\ lastOp' = "archiveCurrent" /\ ~done) =>
              /\ archivedOnly(deck, deck', At(order, cursor))
              /\ stored' = <<deck'>>
              /\ direction' = direction
       /\ (pc = "idle" /\ lastOp' = "archiveCurrent" /\ done) =>
              UNCHANGED <<deck, stored, order, cursor, flipped, direction, pc>>
       /\ (pc = "effect" /\ lastOp = "archiveCurrent") =>
              direction' = direction]_vars

----------------------------------------------------------------------------
(* Properties of shuffleInPlace (checked under SpecShuffle) *)

\* C9: for every array, every startIndex in 0..length and every outcome of the
\* draws, the array after shuffleInPlace is a permutation of the array before
\* and agrees with it at every position below startIndex.
C9_ShufflePermutes ==
    sPc = "returned" =>
        /\ IsPermutationOf(sOut, sArr)
        /\ \A k \in 0..(Len(sArr) - 1) : k < sStart => At(sOut, k) = At(sArr, k)

\* a call with startIndex >= 1 that has changed the array
C9_Witness ==
    /\ sPc = "returned"
    /\ sStart >= 1
    /\ Len(sArr) = 3
    /\ sOut # sArr

AllDistinct(s) == \A m, n \in 1..Len(s) : m # n => s[m] # s[n]

PermutationsOf(s) == {p \in [1..Len(s) -> Range(s)] : IsPermutationOf(p, s)}

\* the number of outcomes of the random source for which shuffleInPlace(arr, 0)
\* ends with arr = p
DrawCount(arr, p) ==
    Cardinality({d \in DrawSeqs(arr, 0) : shuffleInPlace(arr, 0, d) = p})

\* C10: for n distinct elements and startIndex = 0, every one of the n!
\* permutations is produced by the same number of sequences of draws.
C10_ShuffleUniform ==
    (sPc = "returned" /\ sStart = 0 /\ AllDistinct(sArr)) =>
        /\ Cardinality(PermutationsOf(sArr)) = Factorial(Len(sArr))
        /\ \A p \in PermutationsOf(sArr) :
               DrawCount(sArr, p) = DrawCount(sArr, sOut)

\* a full shuffle of three distinct elements that has changed the array
C10_Witness ==
    /\ sPc = "returned"
    /\ sStart = 0
    /\ Len(sArr) = 3
    /\ AllDistinct(sArr)
    /\ sOut # sArr

----------------------------------------------------------------------------
(* Properties of the editor and the App (checked under SpecEdit) *)

\* the step is an import that read the document eArg'
importRead == eOp' \in {"imported", "importFailed"}

\* a document that is malformed JSON, has schemaVersion # 1, or whose cards
\* field is not a sequence
invalidDocument(doc) ==
    \/ doc.t = "malformed"
    \/ ~IsOne(Prop(doc, "schemaVersion"))
    \/ Prop(doc, "cards").t # "arr"

\* C11: an import of a document that is malformed JSON, has schemaVersion # 1
\* or has cards that are not a sequence leaves the working copy, the current
\* deck and the persisted deck as they were, puts "Import failed" in the live
\* region and throws nothing uncaught
C11_InvalidImportFails ==
    [][(importRead /\ invalidDocument(eArg')) =>
           /\ work' = work
           /\ deck' = deck
           /\ stored' = stored
           /\ notice' = "Import failed"
           /\ ~crashed']_vars

C11_Witness ==
    /\ eOp = "importFailed"
    /\ eArg = versionTwoDoc
    /\ notice = "Import failed"
    /\ work # WorkOf(defaultDeck)
    /\ ~crashed

\* what localStorage held at startup was a document and not a deck
startedFromDocument ==
    eOp = "start" /\ stored # <<>> /\ "t" \in DOMAIN stored[1]

\* C12: a document is adopted, at startup and on import, only if its
\* schemaVersion is 1 and its cards are a sequence; for any other document
\* the startup falls back to the built-in deck, the import is aborted, and
\* nothing is thrown uncaught
C12_OnlyValidAdopted ==
    /\ (startedFromDocument /\ invalidDocument(stored[1]))
           => (deck = defaultDeck /\ ~crashed)
    /\ eOp = "imported" => ~invalidDocument(eArg)
    /\ eOp = "importFailed" => ~crashed

\* field of a card element is missing: absent, or the element is null
missingField(element, field) == Prop(element, field).t = "undefined"

\* C13: an import of a document with schemaVersion 1 and a sequence of cards
\* succeeds whatever its card elements are, with one card per element: a
\* missing question or answer is the empty text, a missing archived is false
C13_CardsCoerced ==
    (eOp \in {"imported", "importFailed"} /\ ~invalidDocument(eArg)) =>
        /\ eOp = "imported"
        /\ Len(work.cards) = Len(eArg.f.cards.items)
        /\ \A k \in 1..Len(work.cards) :
            LET element == eArg.f.cards.items[k] IN
            /\ missingField(element, "q") => work.cards[k].q = <<>>
            /\ missingField(element, "a") => work.cards[k].a = <<>>
            /\ missingField(element, "archived") => work.cards[k].archived = FALSE

\* a card with an absent archived field read as one that is not archived
withArchived(card) ==
    [q |-> card.q, a |-> card.a, archived |-> isArchived(card)]

\* C14: importing the document an export produced yields a working copy
\* equal to the exported deck in name, cards and defaults, but for an absent
\* archived field that comes back as false
C14_RoundTrip ==
    (eOp = "imported" /\ file # <<>> /\ eArg = file[1]) =>
        LET original == fromJSON(file[1]) IN
        /\ work.name = original.name
        /\ work.cards = [k \in 1..Len(original.cards) |->
                             withArchived(original.cards[k])]
        /\ work.direction = original.defaults.direction
        /\ work.shuffle = original.defaults.shuffle

\* C15: when the user declines the confirmation of new-set or of import,
\* the working copy, the current deck, the persisted deck, the exported
\* fingerprint and the pending debounced save are as they were
C15_DeclineChangesNothing ==
    [][eOp' \in {"importDeclined", "newDeclined"} =>
           UNCHANGED <<work, deck, stored, exportedHash, storedHash, timers>>]_vars

\* the step is a new-set that replaced the deck and asked no confirmation
newSetUnasked == eOp' = "newSet" /\ eArg' = JBool(FALSE)

\* C16: new-set replaces the deck without asking a confirmation only when
\* the working copy, unsaved edits included, is the document that was last
\* exported
C16_NewSetAsksWhenUnexported ==
    [][newSetUnasked => exportedHash = <<hashDeck(DeckOf(work))>>]_vars

\* the handlers that change the working copy field by field
ChangeOps == {"setName", "setDirection", "setShuffle", "addCard", "deleteCard",
              "updateCard", "setArchivedState"}

\* the one timer a render of the working copy w arms
armed(w) == <<[snap |-> w, ref |-> TRUE, disposed |-> FALSE]>>

\* C17: at most one save timer is pending; a change cancels the pending timer
\* and arms one for the changed working copy; the timer that fires persists
\* the working copy as the last change left it, and no second save follows
\* it before the user changes something again
C17_DebouncedSave ==
    [][/\ Len(timers') <= 1
       /\ eOp' \in ChangeOps => timers' = armed(work')
       /\ eOp' = "timerFires" =>
              /\ stored' = <<DeckOf(work)>>
              /\ eOp # "timerFires"]_vars

\* C18: no timer armed by an edit view outlives the view: none is pending
\* once the view is unmounted (study mode, or a remount for a replaced deck),
\* and no save comes from the timer of a disposed view
C18_NoSaveAfterTeardown ==
    /\ \A k \in 1..Len(timers) : ~timers[k].disposed
    /\ mode = "study" => timers = <<>>
    /\ eOp = "timerFires" => eArg = JBool(FALSE)

\* the view was unmounted with the timer of its mount still pending
C18_Witness ==
    /\ eOp = "setModeStudy"
    /\ steps = 1
    /\ stored = <<>>
    /\ mode = "study"
    /\ timers = <<>>

\* C19: every change made in the edit view reaches the persisted deck once
\* the armed timers have fired, whatever the user does next short of
\* replacing the deck: a working copy that differs from the saved deck has a
\* save pending for it, and the view is not left while its working copy
\* differs from the saved deck
C19_EditsPersisted ==
    [][/\ (mode' = "edit" /\ ~crashed' /\ DeckOf(work') # deck')
              => timers' = armed(work')
       /\ eOp' = "setModeStudy" => DeckOf(work) = deck]_vars

\* C22: an export, with or without the host's export handler, records the
\* fingerprint of the document it wrote, and right after it the dirty-state
\* comparison of App finds no unexported changes
C22_ExportRecordsFingerprint ==
    [][eOp' = "exportJSON" =>
           /\ exportedHash' = <<hashDeck(fromJSON(file'[1]))>>
           /\ storedHash' = exportedHash'
           /\ exportedHash' = <<key'>>]_vars

----------------------------------------------------------------------------
(* Quiescence of the editor (checked under SpecEdit) *)

\* C29: a save performed by the debounce timer does not itself arm a timer:
\* once the pending save has fired no timer is pending, so no further save
\* and no further "Set saved" notice follows until the user changes something
C29_SaveLeavesNoTimer ==
    [][eOp' = "timerFires" => timers' = <<>>]_vars

----------------------------------------------------------------------------
(* Properties of the session's order (checked under Spec) *)

\* order has no duplicates and holds only positions of cards that are active
\* in the deck, and the current card, if any, is not archived
orderOfActive ==
    /\ AllDistinct(order)
    /\ Range(order) \subseteq ActivePositions(deck)
    /\ ~done => ~isArchived(At(deck.cards, currentIndex))

\* C28: in every reachable state order has no duplicates and holds only
\* positions of cards that are active in the deck, so the current card is
\* never an archived one; and order is never longer than the last handler
\* (or the mount) found it, the [deck] effect that follows it included: an
\* archiveCurrent in an Active state has made it one shorter, anything else
\* has left it a rearrangement of what it was.
C28_OrderOnlyShrinks ==
    /\ orderOfActive
    /\ Len(order) <= Len(pre.order)
    /\ IF archivedInActive
       THEN /\ Len(order) = Len(pre.order) - 1
            /\ Range(order) \subseteq Range(pre.order)
       ELSE IsPermutationOf(order, pre.order)

\* a card has been archived on a deck that already held an archived card, and
\* the settled session still has cards to show
C28_Witness ==
    /\ pc = "idle"
    /\ archivedInActive
    /\ Len(order) >= 1
    /\ \E k \in 1..Len(deck0.cards) : isArchived(deck0.cards[k])

----------------------------------------------------------------------------
(* Properties of the theme (checked under SpecTheme) *)

\* C23: while the App runs, its theme is one of auto, light, dark: a stored
\* value that is absent or any other string is not adopted
C23_ThemeIsValid ==
    ~crashed => theme \in Themes /\ dataTheme \in {<<t>> : t \in Themes}

=============================================================================
